---- MODULE Spec2Model ----
(***************************************************************************)
(* bevy_xcap: native window capture for Bevy.                              *)
(*                                                                         *)
(* The model follows src/src/lib.rs.  The two Update systems,              *)
(* dispatch_captures and poll_captures, queue deferred commands; the       *)
(* schedule applies each system's command buffer afterwards.  Worker       *)
(* threads run capture_window and send one message over the mpsc channel.  *)
(***************************************************************************)
EXTENDS Integers, Sequences, FiniteSets, TLC

\* Largest number of capture requests user code submits in one run.
MaxReq == 2

\* Request entities (Entity ids of the records carrying NativeScreenshot).
Ids == 1..MaxReq

(***************************************************************************)
(* Values                                                                  *)
(***************************************************************************)

\* Option::None of an Option<u32> window id.
NoId == -1

\* Option::None of an Option<String> / Option<&str> title.
NoTitle == "<None>"

\* The build's target_os (cfg attributes of native_window_id).
TargetOses == {"windows", "linux", "macos"}

\* A raw window handle: its variant and the 64-bit payload as (hi, lo) 32-bit halves.
RawHandle(variant, hi, lo) == [variant |-> variant, hi |-> hi, lo |-> lo]

\* Absence of a RawHandleWrapper on the target entity.
NoHandle == RawHandle("none", 0, 0)

\* An RGBA buffer of w*h pixels, every byte equal to c.
Pixels(w, h, c) == [i \in 1..(w * h * 4) |-> c]

\* The image xcap's capture_image returns: an RgbaImage of a visible top-level
\* window, w x h pixels (w, h >= 1) in a buffer of exactly w * h * 4 bytes.
RgbaImage(w, h, c) == [width |-> w, height |-> h, raw |-> Pixels(w, h, c)]

\* An xcap::Window as seen by the worker: id() and title() results, and what
\* capture_image() yields for it (an error, or an image).
XcapWindow(id, title, captureOk, image) ==
    [id |-> id, title |-> title, captureOk |-> captureOk, image |-> image]

\* Result<(u32, u32, Vec<u8>), String>
Ok(width, height, rgba) ==
    [ok |-> TRUE, width |-> width, height |-> height, rgba |-> rgba, err |-> ""]

Err(e) ==
    [ok |-> FALSE, width |-> 0, height |-> 0, rgba |-> <<>>, err |-> e]

(***************************************************************************)
(* The host world's windows (targets of requests) and the OS windows       *)
(***************************************************************************)

\* Target entities a request can name: "win" is a created window (it carries a
\* RawHandleWrapper and a Window component), "bare" is a Window entity without
\* a RawHandleWrapper.
Targets == {"win", "bare"}

\* handles.get(target): the RawHandleWrapper of the target on this platform,
\* NoHandle when the query fails.
HandleOf(os, t) ==
    IF t # "win" THEN NoHandle
    ELSE IF os = "windows" THEN RawHandle("Win32", 0, 7)
    ELSE IF os = "linux" THEN RawHandle("Xlib", 0, 7)
    ELSE RawHandle("AppKit", 0, 0)

\* windows.get(target).map(|w| w.title.clone()).ok()
TitleOf(t) == IF t \in {"win", "bare"} THEN "app" ELSE NoTitle

\* What xcap::Window::all() can return while a worker runs: an error, or the
\* list of top-level OS windows.
Enumerations ==
    { [ok |-> FALSE, windows |-> <<>>],
      [ok |-> TRUE, windows |-> <<>>],
      [ok |-> TRUE,
       windows |-> << XcapWindow(7, "app", TRUE, RgbaImage(2, 1, 1)) >>],
      [ok |-> TRUE,
       windows |-> << XcapWindow(9, "app", TRUE, RgbaImage(1, 1, 2)),
                      XcapWindow(7, "other", FALSE, RgbaImage(1, 1, 0)) >>] }

(***************************************************************************)
(* Platform Window Locator and Pixel Reader (pure functions)               *)
(***************************************************************************)

\* native_window_id: the numeric window id the handle exposes on this build.
native_window_id(os, handle) ==
    IF os = "windows" /\ handle.variant = "Win32" THEN handle.lo
    ELSE IF os = "linux" /\ handle.variant = "Xlib" THEN handle.lo
    ELSE IF os = "linux" /\ handle.variant = "Xcb" THEN handle.lo
    ELSE NoId

\* capture_xcap_window with the height read into the width as well.
capture_xcap_window_HeightTwice(window) ==
    IF ~window.captureOk THEN Err("Capture failed")
    ELSE Ok(window.image.height, window.image.height, window.image.raw)

\* capture_xcap_window: the image's dimensions and raw buffer, or the error.
capture_xcap_window(window) ==
    IF ~window.captureOk THEN Err("Capture failed")
    ELSE Ok(window.image.width, window.image.height, window.image.raw)

\* all_windows.iter().find(|w| w.id().ok() == Some(target_id)): the index of
\* the first window with that id, 0 when there is none.
FindById(all_windows, target_id) ==
    LET Match(i) == all_windows[i].id # NoId /\ all_windows[i].id = target_id
    IN  IF \E i \in 1..Len(all_windows) : Match(i)
        THEN CHOOSE i \in 1..Len(all_windows) :
                Match(i) /\ \A j \in 1..(i - 1) : ~Match(j)
        ELSE 0

\* all_windows.iter().find(|w| w.title().ok().as_deref() == Some(title)): the
\* index of the first window with exactly that title, 0 when there is none.
FindByTitle(all_windows, title) ==
    LET Match(i) == all_windows[i].title # NoTitle /\ all_windows[i].title = title
    IN  IF \E i \in 1..Len(all_windows) : Match(i)
        THEN CHOOSE i \in 1..Len(all_windows) :
                Match(i) /\ \A j \in 1..(i - 1) : ~Match(j)
        ELSE 0

\* capture_window trying the title before the numeric id.
capture_window_TitleFirst(os, raw_handle, title, all) ==
    IF ~all.ok THEN Err("Failed to enumerate windows")
    ELSE
        LET all_windows == all.windows
            target_id == native_window_id(os, raw_handle)
            byId == IF target_id # NoId THEN FindById(all_windows, target_id) ELSE 0
            byTitle == IF title # NoTitle THEN FindByTitle(all_windows, title) ELSE 0
        IN  IF byTitle # 0 THEN capture_xcap_window(all_windows[byTitle])
            ELSE IF byId # 0 THEN capture_xcap_window(all_windows[byId])
            ELSE Err("No matching xcap window found")

\* capture_window: locate the OS window by id, else by title, and read it.
capture_window(os, raw_handle, title, all) ==
    IF ~all.ok THEN Err("Failed to enumerate windows")
    ELSE
        LET all_windows == all.windows
            target_id == native_window_id(os, raw_handle)
            byId == IF target_id # NoId THEN FindById(all_windows, target_id) ELSE 0
            byTitle == IF title # NoTitle THEN FindByTitle(all_windows, title) ELSE 0
        IN  IF byId # 0 THEN capture_xcap_window(all_windows[byId])
            ELSE IF byTitle # 0 THEN capture_xcap_window(all_windows[byTitle])
            ELSE Err("No matching xcap window found")

(***************************************************************************)
(* State                                                                   *)
(***************************************************************************)

VARIABLES
    targetOs,       \* the build's target_os
    systemOrder,    \* the schedule's order of the two systems (fixed at build)
    nextId,         \* the next Entity id the world hands to a spawned request
    alive,          \* request records that exist in the world
    target,         \* NativeScreenshot.target of each request
    markers,        \* lifecycle markers (Capturing, Captured) on each record
    added,          \* records dispatch_captures has not yet run over (Added<NativeScreenshot>)
    threads,        \* worker threads that have not sent their message yet
    chan,           \* the mpsc channel: messages sent and not yet received
    cmds,           \* each system's deferred command buffer
    ran,            \* the systems that have run in the current tick
    crashed,        \* the command whose application panicked, or NoCrash
    fired,          \* per request, the NativeScreenshotCaptured events its observer received
    spawned,        \* per request, the number of worker threads spawned for it
    reported,       \* per request, the results its workers sent
    polled,         \* requests whose message poll_captures has received
    observed,       \* requests dispatch_captures has iterated over
    userDestroyed,  \* requests whose record user code despawned
    call            \* a call of capture_window on its own: its arguments and result

vars == << targetOs, systemOrder, nextId, alive, target, markers, added, threads,
           chan, cmds, ran, crashed, fired, spawned, reported, polled, observed,
           userDestroyed, call >>

\* The systems XCapPlugin adds to Update.
Systems == {"dispatch", "poll"}

\* No panic has happened.
NoCrash == [by |-> "none", op |-> "none", entity |-> 0]

\* Placeholder event of commands that trigger nothing.
NoEvent == [entity |-> 0, width |-> 0, height |-> 0, rgba |-> <<>>]

\* NativeScreenshotCaptured { entity, width, height, rgba }
NativeScreenshotCaptured(entity, width, height, rgba) ==
    [entity |-> entity, width |-> width, height |-> height, rgba |-> rgba]

\* Deferred entity commands, tagged with the system whose buffer holds them.
Insert(by, e, comp) ==
    [by |-> by, op |-> "insert", entity |-> e, comp |-> comp, event |-> NoEvent]

Remove(by, e, comp) ==
    [by |-> by, op |-> "remove", entity |-> e, comp |-> comp, event |-> NoEvent]

Trigger(by, e, width, height, rgba) ==
    [by |-> by, op |-> "trigger", entity |-> e, comp |-> "",
     event |-> NativeScreenshotCaptured(e, width, height, rgba)]

Despawn(by, e) ==
    [by |-> by, op |-> "despawn", entity |-> e, comp |-> "", event |-> NoEvent]

\* The requests submitted so far.
Submitted == 1..(nextId - 1)

\* The requests whose record is gone.
Retired == Submitted \ alive

\* Between two ticks: no system of the current tick has run yet.
TickBoundary == ran = {} /\ crashed = NoCrash

\* No capture_window call is being examined on its own.
NoCall ==
    [raw_handle |-> NoHandle, title |-> NoTitle,
     all |-> [ok |-> FALSE, windows |-> <<>>], result |-> Err(""), done |-> FALSE]

\* The world and the channel right after XCapPlugin::build: no request yet.
NoRequests ==
    /\ nextId = 1
    /\ alive = {}
    /\ target = [r \in Ids |-> "bare"]
    /\ markers = [r \in Ids |-> {}]
    /\ added = {}
    /\ threads = {}
    /\ chan = <<>>
    /\ cmds = [s \in Systems |-> <<>>]
    /\ ran = {}
    /\ crashed = NoCrash
    /\ fired = [r \in Ids |-> <<>>]
    /\ spawned = [r \in Ids |-> 0]
    /\ reported = [r \in Ids |-> <<>>]
    /\ polled = {}
    /\ observed = {}
    /\ userDestroyed = {}

Init ==
    /\ targetOs \in TargetOses
    /\ systemOrder \in { <<"dispatch", "poll">>, <<"poll", "dispatch">> }
    /\ call = NoCall
    /\ NoRequests

(***************************************************************************)
(* Helpers                                                                 *)
(***************************************************************************)

\* The elements of a set of entity ids in query iteration order (ascending).
RECURSIVE SetToSeq(_)
SetToSeq(S) ==
    IF S = {} THEN <<>>
    ELSE LET m == CHOOSE x \in S : \A y \in S : x <= y
         IN  <<m>> \o SetToSeq(S \ {m})

\* Concatenation of a sequence of sequences.
RECURSIVE Flatten(_)
Flatten(ss) == IF ss = <<>> THEN <<>> ELSE Head(ss) \o Flatten(Tail(ss))

(***************************************************************************)
(* User code                                                               *)
(***************************************************************************)

\* commands.spawn(NativeScreenshot::window(t)).observe(callback).  The spawn is
\* itself a deferred command of a user system: the record appears in the
\* world between two runs of the coordinator's systems.
Submit(t) ==
    /\ TickBoundary
    /\ nextId <= MaxReq
    /\ alive' = alive \cup {nextId}
    /\ target' = [target EXCEPT ![nextId] = t]
    /\ added' = added \cup {nextId}
    /\ nextId' = nextId + 1
    /\ UNCHANGED << call, targetOs, systemOrder, markers, threads, chan, cmds, ran,
                    crashed, fired, spawned, reported, polled, observed,
                    userDestroyed >>

\* User code despawns a request record: at any point of a tick before the
\* coordinator's own command buffers are applied.
UserDestroy(r) ==
    /\ crashed = NoCrash
    /\ ran # Systems
    /\ r \in alive
    /\ alive' = alive \ {r}
    /\ markers' = [markers EXCEPT ![r] = {}]
    /\ added' = added \ {r}
    /\ userDestroyed' = userDestroyed \cup {r}
    /\ UNCHANGED << call, targetOs, systemOrder, nextId, target, threads, chan, cmds,
                    ran, crashed, fired, spawned, reported, polled, observed >>

(***************************************************************************)
(* dispatch_captures                                                       *)
(***************************************************************************)

\* The query without its Added filter: every existing request, every tick.
NewRequests_NoAddedFilter == alive

\* Query<(Entity, &NativeScreenshot), Added<NativeScreenshot>>
NewRequests == added

\* The loop body whose missing-handle branch only warns and continues.
DispatchOne_WarnOnly(r) ==
    LET raw_handle == HandleOf(targetOs, target[r])
        window_title == TitleOf(target[r])
    IN  IF raw_handle = NoHandle
        THEN [commands |-> <<>>, spawns |-> {}]
        ELSE [commands |-> << Insert("dispatch", r, "Capturing") >>,
              spawns |-> { [entity |-> r, raw_handle |-> raw_handle,
                            window_title |-> window_title,
                            n |-> spawned[r] + 1] }]

\* One iteration of the loop: the commands it queues and the thread it spawns.
DispatchOne(r) ==
    LET raw_handle == HandleOf(targetOs, target[r])
        window_title == TitleOf(target[r])
    IN  IF raw_handle = NoHandle
        THEN [commands |-> << Despawn("dispatch", r) >>, spawns |-> {}]
        ELSE [commands |-> << Insert("dispatch", r, "Capturing") >>,
              spawns |-> { [entity |-> r, raw_handle |-> raw_handle,
                            window_title |-> window_title,
                            n |-> spawned[r] + 1] }]

DispatchCaptures ==
    /\ crashed = NoCrash
    /\ "dispatch" \notin ran
    /\ LET new == SetToSeq(NewRequests)
           outs == [i \in 1..Len(new) |-> DispatchOne(new[i])]
           started == UNION { outs[i].spawns : i \in 1..Len(new) }
       IN  /\ cmds' = [cmds EXCEPT !["dispatch"] =
                          @ \o Flatten([i \in 1..Len(new) |-> outs[i].commands])]
           /\ threads' = threads \cup started
           /\ spawned' = [r \in Ids |->
                            spawned[r] + Cardinality({th \in started : th.entity = r})]
    /\ observed' = observed \cup NewRequests
    /\ added' = {}
    /\ ran' = ran \cup {"dispatch"}
    /\ UNCHANGED << call, targetOs, systemOrder, nextId, alive, target, markers, chan,
                    crashed, fired, reported, polled, userDestroyed >>

(***************************************************************************)
(* Worker thread                                                           *)
(***************************************************************************)

\* The closure tagging its message with the oldest request still in flight
\* instead of the request it was launched for.
WorkerMessage_TagsOldestInFlight(th, all) ==
    [entity |-> CHOOSE e \in { t.entity : t \in threads } :
                    \A t \in threads : e <= t.entity,
     result |-> capture_window(targetOs, th.raw_handle, th.window_title, all)]

\* The closure given to std::thread::spawn: capture, then send one message.
WorkerMessage(th, all) ==
    [entity |-> th.entity,
     result |-> capture_window(targetOs, th.raw_handle, th.window_title, all)]

\* The closure that sends only a success and ends silently on a failure.
WorkerRun_SilentOnFailure ==
    /\ crashed = NoCrash
    /\ \E th \in threads, all \in Enumerations :
          LET msg == WorkerMessage(th, all)
          IN  /\ threads' = threads \ {th}
              /\ IF msg.result.ok
                 THEN /\ chan' = Append(chan, msg)
                      /\ reported' = [reported EXCEPT ![th.entity] =
                                         Append(@, msg.result)]
                 ELSE UNCHANGED << chan, reported >>
    /\ UNCHANGED << call, targetOs, systemOrder, nextId, alive, target, markers, added,
                    cmds, ran, crashed, fired, spawned, polled, observed,
                    userDestroyed >>

\* The worker thread: it runs to its end and sends its one message.
WorkerRun ==
    /\ crashed = NoCrash
    /\ \E th \in threads, all \in Enumerations :
          LET msg == WorkerMessage(th, all)
          IN  /\ chan' = Append(chan, msg)
              /\ threads' = threads \ {th}
              /\ reported' = [reported EXCEPT ![th.entity] = Append(@, msg.result)]
    /\ UNCHANGED << call, targetOs, systemOrder, nextId, alive, target, markers, added,
                    cmds, ran, crashed, fired, spawned, polled, observed,
                    userDestroyed >>

(***************************************************************************)
(* poll_captures                                                           *)
(***************************************************************************)

\* The match with the trigger queued twice on success.
PollOne_TriggerTwice(msg) ==
    LET screenshot_entity == msg.entity
        result == msg.result
    IN  IF result.ok
        THEN << Remove("poll", screenshot_entity, "Capturing"),
                Insert("poll", screenshot_entity, "Captured"),
                Trigger("poll", screenshot_entity,
                        result.width, result.height, result.rgba),
                Trigger("poll", screenshot_entity,
                        result.width, result.height, result.rgba),
                Despawn("poll", screenshot_entity) >>
        ELSE << Despawn("poll", screenshot_entity) >>

\* The match with the despawn queued before the marker and trigger chain.
PollOne_DespawnFirst(msg) ==
    LET screenshot_entity == msg.entity
        result == msg.result
    IN  IF result.ok
        THEN << Despawn("poll", screenshot_entity),
                Remove("poll", screenshot_entity, "Capturing"),
                Insert("poll", screenshot_entity, "Captured"),
                Trigger("poll", screenshot_entity,
                        result.width, result.height, result.rgba) >>
        ELSE << Despawn("poll", screenshot_entity) >>

\* The match whose Err arm also runs the success chain.
PollOne_ErrTriggers(msg) ==
    LET screenshot_entity == msg.entity
        result == msg.result
    IN  << Remove("poll", screenshot_entity, "Capturing"),
           Insert("poll", screenshot_entity, "Captured"),
           Trigger("poll", screenshot_entity,
                   result.width, result.height, result.rgba),
           Despawn("poll", screenshot_entity) >>

\* The success arm without its final despawn.
PollOne_NoDespawn(msg) ==
    LET screenshot_entity == msg.entity
        result == msg.result
    IN  IF result.ok
        THEN << Remove("poll", screenshot_entity, "Capturing"),
                Insert("poll", screenshot_entity, "Captured"),
                Trigger("poll", screenshot_entity,
                        result.width, result.height, result.rgba) >>
        ELSE << Despawn("poll", screenshot_entity) >>

\* The match on one received message: the commands it queues.
PollOne(msg) ==
    LET screenshot_entity == msg.entity
        result == msg.result
    IN  IF result.ok
        THEN << Remove("poll", screenshot_entity, "Capturing"),
                Insert("poll", screenshot_entity, "Captured"),
                Trigger("poll", screenshot_entity,
                        result.width, result.height, result.rgba),
                Despawn("poll", screenshot_entity) >>
        ELSE << Despawn("poll", screenshot_entity) >>

\* The loop written with the blocking rx.recv(): it waits for a message.
PollCaptures_BlockingRecv ==
    /\ crashed = NoCrash
    /\ "poll" \notin ran
    /\ chan # <<>>
    /\ cmds' = [cmds EXCEPT !["poll"] =
                   @ \o Flatten([i \in 1..Len(chan) |-> PollOne(chan[i])])]
    /\ polled' = polled \cup { chan[i].entity : i \in 1..Len(chan) }
    /\ chan' = <<>>
    /\ ran' = ran \cup {"poll"}
    /\ UNCHANGED << call, targetOs, systemOrder, nextId, alive, target, markers, added,
                    threads, crashed, fired, spawned, reported, observed,
                    userDestroyed >>

\* poll_captures: while let Ok(..) = rx.try_recv() over the whole queue.
PollCaptures ==
    /\ crashed = NoCrash
    /\ "poll" \notin ran
    /\ cmds' = [cmds EXCEPT !["poll"] =
                   @ \o Flatten([i \in 1..Len(chan) |-> PollOne(chan[i])])]
    /\ polled' = polled \cup { chan[i].entity : i \in 1..Len(chan) }
    /\ chan' = <<>>
    /\ ran' = ran \cup {"poll"}
    /\ UNCHANGED << call, targetOs, systemOrder, nextId, alive, target, markers, added,
                    threads, crashed, fired, spawned, reported, observed,
                    userDestroyed >>

(***************************************************************************)
(* Command application at the end of the tick                              *)
(*                                                                         *)
(* Both systems are added with add_systems(Update, (dispatch_captures,     *)
(* poll_captures)): no ordering is stated between them, so within a tick   *)
(* they run in either order (or in parallel), and their command buffers    *)
(* are applied once both have run, buffer by buffer in the schedule's      *)
(* order of the two systems (systemOrder), each buffer first-in first-out. *)
(* A deferred insert or trigger whose entity no longer exists is an error  *)
(* given to Bevy's default error handler, which panics; a deferred remove  *)
(* or despawn on a missing entity only logs a warning.                     *)
(***************************************************************************)

\* Commands whose error on a missing entity reaches the default error
\* handler, which panics (insert, trigger); remove and despawn only warn.
Panics(c) == c.op \in {"insert", "trigger"}

\* The system whose buffer is applied next: the first in schedule order that
\* still holds commands.
Applying ==
    IF cmds[systemOrder[1]] # <<>> THEN systemOrder[1] ELSE systemOrder[2]

\* How a run of the user's observer callback ends: it returns (also after a
\* failure it handles itself, as save_to_disk logs a failed save), or it
\* panics (as the expect and assert! of the ci_capture example's observer).
CallbackOutcomes == {"returns", "panics"}

\* Application of the next queued command, the observer callback of a trigger
\* ending in one of the given outcomes.  A panic of the callback unwinds out
\* of the command application like any other panic.
Apply(outcomes) ==
    /\ crashed = NoCrash
    /\ ran = Systems
    /\ cmds[Applying] # <<>>
    /\ LET c == Head(cmds[Applying])
           e == c.entity
       IN  /\ cmds' = [cmds EXCEPT ![Applying] = Tail(@)]
           /\ IF e \notin alive
              THEN /\ crashed' = IF Panics(c)
                                 THEN [by |-> c.by, op |-> c.op, entity |-> e]
                                 ELSE NoCrash
                   /\ UNCHANGED << alive, markers, added, fired >>
              ELSE /\ \E o \in (IF c.op = "trigger" THEN outcomes ELSE {"returns"}) :
                         crashed' = IF o = "panics"
                                    THEN [by |-> "callback", op |-> c.op, entity |-> e]
                                    ELSE NoCrash
                   /\ alive' = IF c.op = "despawn" THEN alive \ {e} ELSE alive
                   /\ added' = IF c.op = "despawn" THEN added \ {e} ELSE added
                   /\ markers' = [markers EXCEPT ![e] =
                                    CASE c.op = "insert" -> @ \cup {c.comp}
                                      [] c.op = "remove" -> @ \ {c.comp}
                                      [] c.op = "despawn" -> {}
                                      [] OTHER -> @]
                   /\ fired' = IF c.op = "trigger"
                               THEN [fired EXCEPT ![e] = Append(@, c.event)]
                               ELSE fired
    /\ UNCHANGED << call, targetOs, systemOrder, nextId, target, threads, chan, ran,
                    spawned, reported, polled, observed, userDestroyed >>

\* Command application with observer callbacks that return.
ApplyCommand == Apply({"returns"})

\* Command application with observer callbacks that may fail.
ApplyFallible == Apply(CallbackOutcomes)

\* Every buffer has been applied: the tick is over.
EndTick ==
    /\ crashed = NoCrash
    /\ ran = Systems
    /\ \A s \in Systems : cmds[s] = <<>>
    /\ ran' = {}
    /\ UNCHANGED << call, targetOs, systemOrder, nextId, alive, target, markers, added,
                    threads, chan, cmds, crashed, fired, spawned, reported,
                    polled, observed, userDestroyed >>

(***************************************************************************)
(* Specifications                                                          *)
(***************************************************************************)

\* The coordinator with user code that only submits requests.
NextCoord ==
    \/ \E t \in Targets : Submit(t)
    \/ DispatchCaptures
    \/ WorkerRun
    \/ PollCaptures
    \/ ApplyCommand
    \/ EndTick

\* User code may also despawn request records.
Next ==
    \/ NextCoord
    \/ \E r \in Ids : UserDestroy(r)

Spec == Init /\ [][Next]_vars

SpecCoord == Init /\ [][NextCoord]_vars

\* All requests are submitted against the same created window before the
\* first dispatch observes any of them (one burst in one tick).
SubmitBurst ==
    /\ Submitted = added
    /\ Submit("win")

NextBurst ==
    \/ SubmitBurst
    \/ DispatchCaptures
    \/ WorkerRun
    \/ PollCaptures
    \/ ApplyCommand
    \/ EndTick

SpecBurst == Init /\ [][NextBurst]_vars

\* The coordinator with user code whose completion callbacks may fail.
NextFallible ==
    \/ \E t \in Targets : Submit(t)
    \/ DispatchCaptures
    \/ WorkerRun
    \/ PollCaptures
    \/ ApplyFallible
    \/ EndTick

SpecFallible == Init /\ [][NextFallible]_vars

(***************************************************************************)
(* capture_window on its own: every platform, handle, title snapshot and   *)
(* enumeration of OS windows up to MaxWins windows                         *)
(***************************************************************************)

\* Largest number of windows xcap::Window::all() returns in a locator call.
MaxWins == 2

\* Variants of raw_window_handle::RawWindowHandle a target window can carry.
HandleVariants == {"Win32", "Xlib", "Xcb", "AppKit", "Wayland"}

\* Handles given to capture_window: window value 7 in every variant, and for
\* the variants read with "as u32" (hwnd: isize, window: c_ulong) also a
\* value with bits above the low 32.
LocatorHandles ==
    { RawHandle(v, 0, 7) : v \in HandleVariants }
        \cup { RawHandle("Win32", 1, 7), RawHandle("Xlib", 1, 7) }

\* Title snapshots given to capture_window: none, or the window's title.
LocatorTitles == {NoTitle, "app"}

\* What one enumerated window answers: id() (NoId when it fails), title()
\* (NoTitle when it fails) and whether capture_image() succeeds.
WindowShapes ==
    [id : {NoId, 7, 9}, title : {NoTitle, "app", "App"}, captureOk : BOOLEAN]

\* The xcap windows of a list of shapes; the i-th window's image is i x 1
\* pixels of byte i, so that the results of different windows differ.
AsXcapWindows(shapes) ==
    [i \in 1..Len(shapes) |->
        XcapWindow(shapes[i].id, shapes[i].title, shapes[i].captureOk,
                   RgbaImage(i, 1, i))]

\* Every outcome of xcap::Window::all(): an error, or up to MaxWins windows.
LocatorEnumerations ==
    { [ok |-> FALSE, windows |-> <<>>] }
        \cup { [ok |-> TRUE, windows |-> AsXcapWindows(shapes)] :
                 shapes \in UNION { [1..n -> WindowShapes] : n \in 0..MaxWins } }

InitLocator ==
    /\ targetOs \in TargetOses
    /\ systemOrder = <<"dispatch", "poll">>
    /\ call \in { [raw_handle |-> h, title |-> t, all |-> a,
                   result |-> Err(""), done |-> FALSE] :
                     h \in LocatorHandles, t \in LocatorTitles,
                     a \in LocatorEnumerations }
    /\ NoRequests

\* The worker's call of capture_window with the arguments of the call.
Locate ==
    /\ ~call.done
    /\ call' = [call EXCEPT
                  !.result = capture_window(targetOs, call.raw_handle,
                                            call.title, call.all),
                  !.done = TRUE]
    /\ UNCHANGED << targetOs, systemOrder, nextId, alive, target, markers, added,
                    threads, chan, cmds, ran, crashed, fired, spawned, reported,
                    polled, observed, userDestroyed >>

NextLocator == Locate

SpecLocator == InitLocator /\ [][NextLocator]_vars

(***************************************************************************)
(* Properties                                                              *)
(***************************************************************************)

\* The result the worker of request r sent (r has reported).
ResultOf(r) == reported[r][1]

\* r's worker has sent a success / a failure.
ReportedOk(r) == reported[r] # <<>> /\ ResultOf(r).ok
ReportedErr(r) == reported[r] # <<>> /\ ~ResultOf(r).ok

\* The request's target carries no RawHandleWrapper.
Handleless(r) == HandleOf(targetOs, target[r]) = NoHandle

\* C1: for every request identity the completion callback fires at most once,
\* and it never fires once the request's record has been retired: an event is
\* only ever delivered while the record exists, and a retired request's
\* events never change again.
C1_CallbackAtMostOnce ==
    /\ [](\A r \in Ids : Len(fired[r]) <= 1)
    /\ [][\A r \in Ids :
            /\ fired'[r] # fired[r] => r \in alive
            /\ r \in Retired => fired'[r] = fired[r]]_vars

\* C1 witness: a request whose callback fired once and whose record is retired,
\* with the loop still ticking.
C1_Witness ==
    /\ TickBoundary
    /\ \E r \in Retired : Len(fired[r]) = 1 /\ r \notin userDestroyed

\* C2: a success message for a request whose record exists when poll's
\* commands are applied marks the record Captured, fires the callback exactly
\* once with the request's identity and the message's width, height and
\* bytes while the record still exists, and the record is removed before the
\* tick ends; applying those commands never panics.
C2_SuccessFiresThenRetires ==
    /\ [](TickBoundary =>
            \A r \in polled :
                (ReportedOk(r) /\ r \notin userDestroyed)
                    => (Len(fired[r]) = 1 /\ r \notin alive))
    /\ [](crashed.by = "poll" => crashed.entity \in userDestroyed)
    /\ [][\A r \in Ids :
            fired'[r] # fired[r] =>
                /\ r \in alive /\ r \in alive'
                /\ markers[r] = {"Captured"}
                /\ ReportedOk(r)
                /\ fired'[r] = << NativeScreenshotCaptured(r, ResultOf(r).width,
                                     ResultOf(r).height, ResultOf(r).rgba) >>]_vars

\* C2 witness: at a tick boundary a successfully captured request has had its
\* callback fired with the 2x1 image and its record removed.
C2_Witness ==
    /\ TickBoundary
    /\ \E r \in polled :
          /\ ReportedOk(r) /\ r \notin userDestroyed /\ r \notin alive
          /\ Len(fired[r]) = 1 /\ fired[r][1].width = 2 /\ fired[r][1].entity = r

\* C3: when a worker reports a failure, no completion event is ever fired for
\* that request, and once poll_captures has received the failure the record
\* is removed by the end of that tick.
C3_FailureRetiresWithoutEvent ==
    \A r \in Ids :
        ReportedErr(r) =>
            /\ fired[r] = <<>>
            /\ (TickBoundary /\ r \in polled) => r \notin alive

\* C3 witness: a not-found failure and a capture failure have both been
\* polled and the coordinator has removed both records.
C3_Witness ==
    /\ TickBoundary
    /\ \E r1, r2 \in polled \ userDestroyed :
          /\ ReportedErr(r1) /\ ResultOf(r1).err = "No matching xcap window found"
          /\ ReportedErr(r2) /\ ResultOf(r2).err = "Capture failed"
          /\ r1 \notin alive /\ r2 \notin alive

\* C4: for a request whose target carries no handle, no worker is launched, no
\* message for it is ever on the channel, no event is fired, and the record
\* is gone at the end of the tick in which dispatch_captures observed it.
C4_NoHandleRetiredSameTick ==
    \A r \in Submitted :
        Handleless(r) =>
            /\ spawned[r] = 0
            /\ \A th \in threads : th.entity # r
            /\ reported[r] = <<>>
            /\ \A i \in 1..Len(chan) : chan[i].entity # r
            /\ fired[r] = <<>>
            /\ (TickBoundary /\ r \in observed) => r \notin alive

\* C4 witness: a handle-less request was observed and the coordinator removed
\* its record.
C4_Witness ==
    /\ TickBoundary
    /\ \E r \in observed : Handleless(r) /\ r \notin alive /\ r \notin userDestroyed

\* C5 (as claimed): every submitted request is eventually retired by the
\* coordinator.  Stated for the runs in which the application has stopped for
\* good (a panic ends the loop): by then every submitted record must be gone.
C5_AllSubmittedRetired ==
    crashed # NoCrash => Retired = Submitted

\* C6 (as claimed): a request against a window with a handle whose worker
\* captured successfully, and whose record user code did not destroy, gets
\* its callback fired.  Stated for the runs in which the application has
\* stopped for good: by then the callback must have fired.
C6_SuccessEventuallyFires ==
    crashed # NoCrash =>
        \A r \in Submitted :
            (~Handleless(r) /\ ReportedOk(r) /\ r \notin userDestroyed)
                => fired[r] # <<>>

\* C7 (as claimed): N requests submitted in one tick against the same window,
\* all of whose workers succeed, yield exactly N completion events, one per
\* request.  Stated for the runs in which the application has stopped for
\* good after every worker sent its success.
C7_BurstFiresOncePerRequest ==
    (crashed # NoCrash /\ \A r \in Submitted : ReportedOk(r))
        => \A r \in Submitted : Len(fired[r]) = 1

\* C8 (as claimed): when the message of a request whose record user code
\* destroyed after the worker was launched is processed, no callback fires
\* and the coordinator does not crash.
C8_DestroyedRequestIsDropped ==
    \A r \in userDestroyed :
        spawned[r] > 0 =>
            /\ fired[r] = <<>>
            /\ ~(crashed.by = "poll" /\ crashed.entity = r)

C10_OneWorkerPerRequest ==
    \A r \in Ids :
        /\ spawned[r] <= 1
        /\ Cardinality({th \in threads : th.entity = r}) <= 1
        /\ Len(reported[r]) <= 1

\* C10 witness: dispatch_captures has run again in a later tick over a request
\* that was dispatched in an earlier one (it already carries Capturing)
\* without launching a second worker.
C10_Witness ==
    \E r \in alive :
        /\ "Capturing" \in markers[r]
        /\ ran = {"dispatch"}
        /\ spawned[r] = 1

\* The command dispatch_captures queued for r that is still waiting in its
\* buffer: the deferred attach of Capturing.
CapturingPending(r) ==
    \E i \in 1..Len(cmds["dispatch"]) :
        cmds["dispatch"][i] = Insert("dispatch", r, "Capturing")

\* C11 (as claimed): within one tick poll_captures never receives from the
\* channel before dispatch_captures has run in that tick: every run of
\* poll_captures happens in a tick in which dispatch_captures already ran.
C11_DispatchBeforePoll ==
    [][("poll" \in ran' /\ "poll" \notin ran) => "dispatch" \in ran]_vars

\* C12 (as claimed): a request never carries Capturing and Captured together,
\* and it is never marked Captured, nor retired by poll_captures, while the
\* attach of Capturing queued for it has not been applied yet.
C12_LifecycleOrdered ==
    \A r \in Submitted :
        /\ ~({"Capturing", "Captured"} \subseteq markers[r])
        /\ (r \in alive /\ "Captured" \in markers[r]) => ~CapturingPending(r)
        /\ (r \in polled /\ r \notin alive) => ~CapturingPending(r)

\* C13: an existing record carries Captured only while poll_captures' command
\* buffer is being applied, with that record's trigger or despawn next in the
\* buffer; so at every tick boundary no existing record carries Captured.
C13_CapturedNeverLingers ==
    \A r \in alive :
        "Captured" \in markers[r] =>
            /\ ~TickBoundary
            /\ ran = Systems /\ crashed = NoCrash
            /\ cmds["poll"] # <<>>
            /\ Head(cmds["poll"]).entity = r
            /\ Head(cmds["poll"]).op \in {"trigger", "despawn"}

\* C13 witness: a record carries Captured in the middle of a tick, its event
\* already delivered and its despawn next.
C13_Witness ==
    \E r \in alive :
        /\ "Captured" \in markers[r]
        /\ fired[r] # <<>>
        /\ Head(cmds["poll"]) = Despawn("poll", r)

\* The failure strings capture_window and capture_xcap_window produce.
FailureStrings ==
    { "Failed to enumerate windows", "No matching xcap window found",
      "Capture failed" }

\* A Result<(u32, u32, Vec<u8>), String>: the success tuple or a failure string.
IsCaptureResult(res) ==
    \/ res.ok /\ res.err = ""
    \/ ~res.ok /\ res.err \in FailureStrings /\ res.rgba = <<>>

\* The messages on the channel that are tagged with request r.
InChannel(r) == { i \in 1..Len(chan) : chan[i].entity = r }

\* The worker threads of request r that have not sent their message yet.
Running(r) == { th \in threads : th.entity = r }

\* C14: every launched worker ends by sending exactly one message: the workers
\* launched for a request are those still running plus the messages sent for
\* it, every message sent is on the channel or was received by poll_captures,
\* every message on the channel is tagged with the identity of a request a
\* worker was launched for and carries the result that worker computed, and
\* that result is the success tuple or one of the failure strings.
C14_WorkerSendsExactlyOne ==
    /\ \A r \in Ids :
          /\ spawned[r] = Len(reported[r]) + Cardinality(Running(r))
          /\ Len(reported[r]) =
                Cardinality(InChannel(r)) + (IF r \in polled THEN 1 ELSE 0)
          /\ \A i \in 1..Len(reported[r]) : IsCaptureResult(reported[r][i])
    /\ \A i \in 1..Len(chan) :
          /\ chan[i].entity \in Submitted
          /\ spawned[chan[i].entity] = 1
          /\ chan[i].result = ResultOf(chan[i].entity)

\* C14 witness: both workers have ended; the channel holds the enumeration
\* failure of one request and the success tuple of the other.
C14_Witness ==
    /\ threads = {}
    /\ Len(chan) = 2
    /\ chan[1].entity # chan[2].entity
    /\ chan[1].result = Err("Failed to enumerate windows")
    /\ chan[2].result.ok /\ chan[2].result.width = 2

\* C15: poll_captures never waits for the channel: in every tick in which it
\* has not run yet it can run, whatever the queue holds and however many
\* workers are still running; when it runs it receives every message that is
\* on the channel, queues the retirement of each message's request, leaves
\* the queue empty and leaves the running workers alone.
C15_PollNeverBlocks ==
    /\ []((crashed = NoCrash /\ "poll" \notin ran) => ENABLED PollCaptures)
    /\ [][("poll" \in ran' /\ "poll" \notin ran) =>
            /\ chan' = <<>>
            /\ threads' = threads
            /\ polled' = polled \cup { chan[i].entity : i \in 1..Len(chan) }
            /\ Len(cmds'["poll"]) >= Len(cmds["poll"]) + Len(chan)
            /\ \A i \in 1..Len(chan) :
                  \E j \in 1..Len(cmds'["poll"]) :
                      cmds'["poll"][j] = Despawn("poll", chan[i].entity)]_vars

\* C15 witness: two requests were dispatched and a tick completed while both
\* workers were still running (both records carry Capturing); in a later tick
\* poll_captures has received the message of one of them while the worker of
\* the other is still running.
C15_Witness ==
    /\ "poll" \in ran
    /\ \E r1, r2 \in alive :
          /\ r1 # r2
          /\ "Capturing" \in markers[r1] /\ "Capturing" \in markers[r2]
          /\ r1 \in polled
          /\ Running(r2) # {}

\* The event carries the identity r and the data of the result r's worker sent.
EventOfWorker(ev, r) ==
    /\ ev.entity = r
    /\ ReportedOk(r)
    /\ ev.width = ResultOf(r).width
    /\ ev.height = ResultOf(r).height
    /\ ev.rgba = ResultOf(r).rgba

\* C16: every completion event delivered to the callback of request r, and
\* every trigger still queued for r, carries r's identity and the width,
\* height and bytes that the worker launched for r sent, whatever the order
\* in which the messages of different requests arrived.
C16_ResultRoutedByIdentity ==
    /\ \A r \in Ids :
          \A i \in 1..Len(fired[r]) : EventOfWorker(fired[r][i], r)
    /\ \A i \in 1..Len(cmds["poll"]) :
          cmds["poll"][i].op = "trigger" =>
              EventOfWorker(cmds["poll"][i].event, cmds["poll"][i].entity)

\* C16 witness: two requests in flight whose workers captured different
\* images; the later request's message arrived first and its event has been
\* delivered, the earlier request's message has been received after it and
\* its event is still queued.
C16_Witness ==
    \E r1, r2 \in Submitted :
        /\ r1 < r2
        /\ fired[r2] # <<>> /\ fired[r2][1].entity = r2
        /\ r1 \in polled /\ r1 \in alive /\ fired[r1] = <<>>
        /\ ReportedOk(r1)
        /\ ResultOf(r1).rgba # fired[r2][1].rgba

\* The least element of a non-empty set of indices.
First(S) == CHOOSE i \in S : \A j \in S : i <= j

\* What reading the window yields: its image's size and bytes, or the
\* capture failure.
OutcomeOf(w) ==
    IF w.captureOk
    THEN Ok(w.image.width, w.image.height, w.image.raw)
    ELSE Err("Capture failed")

\* C17: for every enumeration of OS windows, when the handle exposes a numeric
\* id on this platform and some enumerated window reports that id, the result
\* of capture_window is the capture outcome of the first such window,
\* whatever the titles are; otherwise, when a title snapshot was given and
\* some enumerated window's title equals it exactly, the result is the
\* capture outcome of the first such window; otherwise it is the not-found
\* failure.  A failed enumeration yields the enumeration failure.
C17_LocatorPriorityOrder ==
    call.done =>
        LET ws == call.all.windows
            id == native_window_id(targetOs, call.raw_handle)
            IdMatches ==
                { i \in 1..Len(ws) : id # NoId /\ ws[i].id = id }
            TitleMatches ==
                { i \in 1..Len(ws) :
                    /\ call.title # NoTitle
                    /\ ws[i].title # NoTitle
                    /\ ws[i].title = call.title }
        IN  IF ~call.all.ok
            THEN call.result = Err("Failed to enumerate windows")
            ELSE IF IdMatches # {}
            THEN call.result = OutcomeOf(ws[First(IdMatches)])
            ELSE IF TitleMatches # {}
            THEN call.result = OutcomeOf(ws[First(TitleMatches)])
            ELSE call.result = Err("No matching xcap window found")

\* C17 witness: the first window carries the title of the snapshot, the second
\* the handle's id; capture_window returned the capture of the second.
C17_Witness ==
    /\ call.done
    /\ Len(call.all.windows) = 2
    /\ call.title = "app"
    /\ call.all.windows[1].title = "app" /\ call.all.windows[1].id = 9
    /\ call.all.windows[1].captureOk
    /\ call.all.windows[2].id = 7 /\ call.all.windows[2].title = "App"
    /\ native_window_id(targetOs, call.raw_handle) = 7
    /\ call.result = Ok(2, 1, Pixels(2, 1, 2))

\* C18 (as claimed): retiring a request because of a missing handle or a
\* failure reported by its worker never stops the coordinator while another
\* request is still waiting for its own completion or failure: no panic is
\* raised by a command on the failed request's record with the record of
\* another request left in the world.
C18_ErrorsStayLocal ==
    \A r \in Submitted :
        ( /\ ReportedErr(r) \/ Handleless(r)
          /\ r \notin alive
          /\ crashed # NoCrash /\ crashed.entity = r )
            => \A o \in Submitted \ {r} : o \notin alive

\* C19 (as claimed): when the callback of a request fails, the request is
\* retired all the same: once the coordinator has stopped for good, the record
\* of a request whose callback failed is gone.
C19_RetiredDespiteCallbackFailure ==
    crashed.by = "callback" => crashed.entity \notin alive

\* C20 (as claimed): with user code that never destroys request records, the
\* command the coordinator applies next always finds its record in the world;
\* in particular the attach of Capturing queued by dispatch_captures is never
\* still waiting when the record has been despawned for poll_captures.
C20_CommandsFindTheirRecord ==
    /\ (crashed = NoCrash /\ ran = Systems /\ cmds[Applying] # <<>>)
          => Head(cmds[Applying]).entity \in alive
    /\ \A r \in Submitted : CapturingPending(r) => r \in alive

====
